---- MODULE Spec2Model ----
(***************************************************************************)
(* Model of the sprite-data converters analysis/build_sigma_sprites.py and *)
(* analysis/build_zero_sprites.py: convert_anim, format_frame, main and    *)
(* the lookup function each generated module exports; and of the           *)
(* controller calibration tool tools/map-controller.py.                    *)
(*                                                                         *)
(* Encoding of the JSON input:                                             *)
(*   - a JSON object is a record; an absent key is an absent field;        *)
(*   - a JSON number is a rational <<n, d>> (n/d, d > 0), so that Python's *)
(*     int() (truncation) and round() (round half to even) are computed,   *)
(*     not assumed;                                                        *)
(*   - Python's None / a missing optional is the empty sequence <<>>, a    *)
(*     present value v is <<v>>.                                           *)
(***************************************************************************)
EXTENDS Integers, Sequences, FiniteSets, TLC

VARIABLES
    char,      \* which converter runs: "sigma" or "zero"
    fs,        \* the sprite directory: animation name -> None | Some(json)
    pc,        \* "call"/"returned"/"raised" for a call of convert_anim,
               \* "loop"/"done"/"aborted" for a run of main, "served" once
               \* the written module has answered a lookup
    idx,       \* position of main's loop in ANIMS (1-based)
    name,      \* the animation name at hand
    data,      \* the loaded JSON document
    anim,      \* the value convert_anim returned
    lines,     \* the animation entries appended to the output so far
    warnings,  \* the files reported as not found
    out,       \* the output module on disk: None | Some(entries)
    query,     \* the last lookup made on the written module
    result,    \* and what it returned
    tpc,       \* map-controller.py: where its main is ("off": not running)
    joystick,  \* the controller found: name, n_buttons, n_axes, n_hats
    axis_baseline, \* the resting value of each axis
    mapping,   \* the mapping dict, as its (key, value) pairs in insertion order
    axes,      \* the dict map_analog fills
    last_input, \* what the last call of detect_any_input returned
    mapfile    \* controller-map.json: None | Some(mapping)

convvars == <<char, fs, pc, idx, name, data, anim, lines, warnings, out,
              query, result>>

toolvars == <<tpc, joystick, axis_baseline, mapping, axes, last_input,
              mapfile>>

vars == <<char, fs, pc, idx, name, data, anim, lines, warnings, out,
          query, result, tpc, joystick, axis_baseline, mapping, axes,
          last_input, mapfile>>

(***************************************************************************)
(* Bounds of the explored inputs.                                          *)
(***************************************************************************)
MaxFrames == 4
MaxPois == 2
MaxHitboxes == 2
MaxMissing == 2
MaxButtons == 2
MaxHats == 1
MaxAxes == 2

(***************************************************************************)
(* Python values and builtins.                                             *)
(***************************************************************************)
None == <<>>
Some(v) == <<v>>

Q(n, d) == <<n, d>>

\* dict.get(key, default)
Get(r, k, default) == IF k \in DOMAIN r THEN r[k] ELSE default

\* abs(x)
Abs(x) == IF x < 0 THEN -x ELSE x

\* int(x) replaced by math.floor(x)
int_floor(q) == q[1] \div q[2]

\* int(x): truncation toward zero
int(q) ==
    IF q[1] >= 0 THEN q[1] \div q[2] ELSE -((-q[1]) \div q[2])

\* round(x): nearest integer, ties to the even neighbour
round(q) ==
    LET fl == q[1] \div q[2]
        rem == q[1] - fl * q[2]
    IN  IF 2 * rem < q[2] THEN fl
        ELSE IF 2 * rem > q[2] THEN fl + 1
        ELSE IF fl % 2 = 0 THEN fl ELSE fl + 1

max(a, b) == IF a >= b THEN a ELSE b

(***************************************************************************)
(* dur_sec * 60 is a product of binary doubles.  A JSON number n/d is read *)
(* as the double nearest to it, and the product is rounded to a double     *)
(* again, so a product that is exactly halfway between two integers can    *)
(* reach round() a little below or above the half (1.025 * 60 is           *)
(* 61.49999999999999).  The operators below compute this with remainders,  *)
(* for 0 < n, d < 2^14.                                                    *)
(***************************************************************************)
\* 2^e mod m
RECURSIVE PowMod2(_, _)
PowMod2(e, m) == IF e = 0 THEN 1 % m ELSE (2 * PowMod2(e - 1, m)) % m

\* the binary exponent of n/d > 0: 2^E <= n/d < 2^(E+1)
RECURSIVE Exponent(_, _)
Exponent(n, d) ==
    IF n >= 2 * d THEN 1 + Exponent(n, 2 * d)
    ELSE IF n < d THEN Exponent(2 * n, d) - 1
    ELSE 0

\* float(n/d) - n/d in units of ulp/d: the 53-bit significand is
\* n * 2^(52-E) / d rounded to the nearest integer, ties to even
FloatError(n, d) ==
    LET s == 52 - Exponent(n, d)
        r == ((n % d) * PowMod2(s, d)) % d
        odd == ((n % (2 * d)) * PowMod2(s, 2 * d)) % (2 * d) >= d
    IN  IF 2 * r < d THEN -r
        ELSE IF 2 * r > d THEN d - r
        ELSE IF odd THEN d - r ELSE -r

\* round(float(n/d) * 60) for n/d > 0
RoundTimes60(n, d) ==
    LET k == (60 * n) \div d
        halfway == (120 * n) % d = 0 /\ ((120 * n) \div d) % 2 = 1
        c == FloatError(n, d)
        \* the product lies 60*c / (d * 2^g) ulps of k + 0.5 away from it
        g == Exponent(2 * k + 1, 2) - Exponent(n, d)
                 - (IF k = 0 /\ c < 0 THEN 1 ELSE 0)
    IN  IF ~halfway THEN round(Q(60 * n, d))
        ELSE IF 120 * Abs(c) > d * 2^g
        THEN (IF c < 0 THEN k ELSE k + 1)
        ELSE round(Q(60 * n, d))

\* round(dur_sec * 60)
round_times_60(q) ==
    IF q[1] = 0 THEN 0
    ELSE IF q[1] < 0 THEN -RoundTimes60(-q[1], q[2])
    ELSE RoundTimes60(q[1], q[2])

Zero0 == Q(0, 1)

\* the default duration 0.066 of fr.get('duration', 0.066)
DefaultDuration == Q(66, 1000)

(***************************************************************************)
(* Configuration tables.                                                   *)
(***************************************************************************)
SIGMA_ANIMS ==
    << "idle", "run", "jump", "fall", "land", "dash", "wall_slide", "hurt",
       "die", "warp_in", "warp_beam", "shoot", "attack", "attack_air",
       "attack_dash", "wall_slide_attack", "proj_slash" >>

ZERO_ANIMS ==
    << "idle", "run", "jump", "fall", "land", "dash", "wall_slide", "hurt",
       "die", "warp_in", "warp_beam", "shoot", "run_shoot", "jump_shoot",
       "fall_shoot", "dash_shoot", "wall_slide_shoot", "attack", "attack2",
       "attack3", "attack_air" >>

ANIMS(c) == IF c = "sigma" THEN SIGMA_ANIMS ELSE ZERO_ANIMS

AnimNames(c) == {ANIMS(c)[i] : i \in 1..Len(ANIMS(c))}

Box(w, h, ox, oy) == [w |-> w, h |-> h, ox |-> ox, oy |-> oy]

MANUAL_ATK_BOXES ==
    [attack |-> (2 :> Box(23, 40, 30, -32)) @@ (3 :> Box(23, 40, 30, -32)),
     attack_air |-> (2 :> Box(23, 40, 23, -42)) @@ (3 :> Box(23, 40, 23, -42)),
     attack_dash |-> (0 :> Box(23, 40, 21, -33)) @@ (1 :> Box(23, 40, 21, -33)),
     wall_slide_attack |-> (3 :> Box(48, 53, 53, 3)) @@ (4 :> Box(48, 53, 53, 3))
                        @@ (5 :> Box(48, 53, 53, 3)) @@ (6 :> Box(48, 53, 53, 3))]

MANUAL_DURATIONS ==
    [attack |-> (0 :> 2) @@ (1 :> 2) @@ (2 :> 3) @@ (3 :> 10),
     attack_air |-> (2 :> 3) @@ (3 :> 10),
     attack_dash |-> (0 :> 3) @@ (1 :> 10)]

\* name in TABLE and i in TABLE[name]
HasOverride(T, n, i) == n \in DOMAIN T /\ i \in DOMAIN T[n]

ZERO_SHOOT_ANIM_MAP ==
    [idle |-> "shoot", run |-> "run_shoot", jump |-> "jump_shoot",
     fall |-> "fall_shoot", dash |-> "dash_shoot",
     wall_slide |-> "wall_slide_shoot"]

(***************************************************************************)
(* convert_anim, one frame at a time.  i is the zero-based frame index.    *)
(***************************************************************************)

\* fr['rect'], rect['topLeftPoint'], rect['botRightPoint'], tl['x'] ... :
\* a missing key raises KeyError
FrameRaises(fr) ==
    IF "rect" \notin DOMAIN fr THEN TRUE
    ELSE IF "topLeftPoint" \notin DOMAIN fr.rect THEN TRUE
    ELSE IF "botRightPoint" \notin DOMAIN fr.rect THEN TRUE
    ELSE IF {"x", "y"} \ DOMAIN fr.rect.topLeftPoint # {} THEN TRUE
    ELSE {"x", "y"} \ DOMAIN fr.rect.botRightPoint # {}

\* BaseFrameData with the minimum of 1 left out of the duration
BaseFrameData_nomax(fr) ==
    LET tl == fr.rect.topLeftPoint
        br == fr.rect.botRightPoint
        sx == int(tl.x)
        sy == int(tl.y)
        dur_sec == Get(fr, "duration", DefaultDuration)
        offset == Get(fr, "offset", <<>>)
        ox == round(Get(offset, "x", Zero0))
        oy == round(Get(offset, "y", Zero0))
    IN  [sx |-> sx, sy |-> sy, sw |-> int(br.x) - sx, sh |-> int(br.y) - sy,
         dur |-> round_times_60(dur_sec)]
        @@ (IF ox # 0 THEN [ox |-> ox] ELSE <<>>)
        @@ (IF oy # 0 THEN [oy |-> oy] ELSE <<>>)

\* BaseFrameData with both offset axes emitted as soon as one is nonzero
BaseFrameData_pair(fr) ==
    LET tl == fr.rect.topLeftPoint
        br == fr.rect.botRightPoint
        sx == int(tl.x)
        sy == int(tl.y)
        dur_sec == Get(fr, "duration", DefaultDuration)
        offset == Get(fr, "offset", <<>>)
        ox == round(Get(offset, "x", Zero0))
        oy == round(Get(offset, "y", Zero0))
    IN  [sx |-> sx, sy |-> sy, sw |-> int(br.x) - sx, sh |-> int(br.y) - sy,
         dur |-> max(1, round_times_60(dur_sec))]
        @@ (IF ox # 0 \/ oy # 0 THEN [ox |-> ox, oy |-> oy] ELSE <<>>)

\* rectangle, duration and rendering offset (identical in both converters)
BaseFrameData(fr) ==
    LET tl == fr.rect.topLeftPoint
        br == fr.rect.botRightPoint
        sx == int(tl.x)
        sy == int(tl.y)
        sw == int(br.x) - sx
        sh == int(br.y) - sy
        dur_sec == Get(fr, "duration", DefaultDuration)
        dur == max(1, round_times_60(dur_sec))
        offset == Get(fr, "offset", <<>>)
        ox == round(Get(offset, "x", Zero0))
        oy == round(Get(offset, "y", Zero0))
    IN  [sx |-> sx, sy |-> sy, sw |-> sw, sh |-> sh, dur |-> dur]
        @@ (IF ox # 0 THEN [ox |-> ox] ELSE <<>>)
        @@ (IF oy # 0 THEN [oy |-> oy] ELSE <<>>)

\* the tag of the POI a character's anchor comes from
PrimaryTag(c) == IF c = "sigma" THEN "" ELSE "b"

\* ScanPOIs with a break after the first matching POI
RECURSIVE ScanPOIs_break(_, _, _)
ScanPOIs_break(pois, tag, acc) ==
    IF pois = <<>> THEN acc
    ELSE IF Get(Head(pois), "tags", "") = tag
         THEN [hx |-> round(Get(Head(pois), "x", Zero0)),
               hy |-> round(Get(Head(pois), "y", Zero0))]
         ELSE ScanPOIs_break(Tail(pois), tag, acc)

\* for poi in pois: if tag == primary: frame_data['hx'], ['hy'] = ...
\* every matching POI assigns, so the loop leaves the last assignment
RECURSIVE ScanPOIs(_, _, _)
ScanPOIs(pois, tag, acc) ==
    IF pois = <<>> THEN acc
    ELSE LET poi == Head(pois)
             hit == Get(poi, "tags", "") = tag
             upd == [hx |-> round(Get(poi, "x", Zero0)),
                     hy |-> round(Get(poi, "y", Zero0))]
         IN  ScanPOIs(Tail(pois), tag, IF hit THEN upd ELSE acc)

\* active_hitboxes without the flag filter
active_hitboxes_all(hitboxes) == hitboxes

\* active_hitboxes = [h for h in hitboxes if h.get('flag', 0) == 0]
active_hitboxes(hitboxes) ==
    SelectSeq(hitboxes, LAMBDA h : Get(h, "flag", 0) = 0)

\* frame_data['atkBox'] built from active_hitboxes[0]
HitboxAtkBox(fr) ==
    LET act == active_hitboxes(Get(fr, "hitboxes", <<>>))
    IN  IF act = <<>> THEN <<>>
        ELSE LET hb == act[1]
                 hb_offset == Get(hb, "offset", <<>>)
             IN  [atkBox |-> Box(round(Get(hb, "width", Zero0)),
                                 round(Get(hb, "height", Zero0)),
                                 round(Get(hb_offset, "x", Zero0)),
                                 round(Get(hb_offset, "y", Zero0)))]

\* sigma_frame with the duration override bounded by the computed duration
sigma_frame_clamp(n, i, fr) ==
    LET base == BaseFrameData(fr)
        durOv == IF HasOverride(MANUAL_DURATIONS, n, i)
                 THEN [dur |-> IF MANUAL_DURATIONS[n][i] < base.dur
                               THEN MANUAL_DURATIONS[n][i] ELSE base.dur]
                 ELSE <<>>
        poi == ScanPOIs(Get(fr, "POIs", <<>>), "", <<>>)
        atkOv == IF HasOverride(MANUAL_ATK_BOXES, n, i)
                 THEN [atkBox |-> MANUAL_ATK_BOXES[n][i]] ELSE <<>>
    IN  atkOv @@ HitboxAtkBox(fr) @@ poi @@ durOv @@ base

\* sigma_frame with the attack-box override used only where the source
\* frame has no damage hitbox
sigma_frame_keep(n, i, fr) ==
    LET base == BaseFrameData(fr)
        durOv == IF HasOverride(MANUAL_DURATIONS, n, i)
                 THEN [dur |-> MANUAL_DURATIONS[n][i]] ELSE <<>>
        poi == ScanPOIs(Get(fr, "POIs", <<>>), "", <<>>)
        atkOv == IF HasOverride(MANUAL_ATK_BOXES, n, i)
                 THEN [atkBox |-> MANUAL_ATK_BOXES[n][i]] ELSE <<>>
    IN  HitboxAtkBox(fr) @@ atkOv @@ poi @@ durOv @@ base

\* build_sigma_sprites.py, body of the frame loop
sigma_frame(n, i, fr) ==
    LET base == BaseFrameData(fr)
        durOv == IF HasOverride(MANUAL_DURATIONS, n, i)
                 THEN [dur |-> MANUAL_DURATIONS[n][i]] ELSE <<>>
        poi == ScanPOIs(Get(fr, "POIs", <<>>), PrimaryTag("sigma"), <<>>)
        atkOv == IF HasOverride(MANUAL_ATK_BOXES, n, i)
                 THEN [atkBox |-> MANUAL_ATK_BOXES[n][i]] ELSE <<>>
    IN  atkOv @@ HitboxAtkBox(fr) @@ poi @@ durOv @@ base

\* build_zero_sprites.py, body of the frame loop
zero_frame(n, i, fr) ==
    LET base == BaseFrameData(fr)
        poi == ScanPOIs(Get(fr, "POIs", <<>>), PrimaryTag("zero"), <<>>)
    IN  HitboxAtkBox(fr) @@ poi @@ base

convert_frame(c, n, i, fr) ==
    IF c = "sigma" THEN sigma_frame(n, i, fr) ELSE zero_frame(n, i, fr)

\* convert_anim raises KeyError: data['frames'] or a frame's rectangle
convert_raises(d) ==
    IF "frames" \notin DOMAIN d THEN TRUE
    ELSE {k \in 1..Len(d.frames) : FrameRaises(d.frames[k])} # {}

\* LoopStartOf with the comparison loop_start >= 0
LoopStartOf_ge(is_loop, loop_start) ==
    IF is_loop /\ loop_start >= 0 THEN Some(loop_start) ELSE None

\* 'loopStart': loop_start if is_loop and loop_start > 0 else None
LoopStartOf(is_loop, loop_start) ==
    IF is_loop /\ loop_start > 0 THEN Some(loop_start) ELSE None

\* convert_anim with the frames numbered from 1
convert_anim_onebased(c, n, d) ==
    [loop |-> Get(d, "wrapMode", "once") = "loop",
     loopStart |-> LoopStartOf(Get(d, "wrapMode", "once") = "loop",
                               Get(d, "loopStartFrame", 0)),
     frames |-> [k \in 1..Len(d.frames) |->
                    convert_frame(c, n, k, d.frames[k])]]

convert_anim(c, n, d) ==
    LET wrap == Get(d, "wrapMode", "once")
        loop_start == Get(d, "loopStartFrame", 0)
        is_loop == wrap = "loop"
    IN  [loop |-> is_loop,
         loopStart |-> LoopStartOf(is_loop, loop_start),
         frames |-> [k \in 1..Len(d.frames) |->
                        convert_frame(c, n, k - 1, d.frames[k])]]

(***************************************************************************)
(* Serialisation.  A formatted frame is the sequence of its key:value      *)
(* parts in output order; the attack box contributes four parts.           *)
(***************************************************************************)
Part(f, k) == IF k \in DOMAIN f THEN << <<k, f[k]>> >> ELSE <<>>

format_frame(f) ==
    << <<"sx", f.sx>>, <<"sy", f.sy>>, <<"sw", f.sw>>, <<"sh", f.sh>>,
       <<"dur", f.dur>> >>
    \o Part(f, "ox") \o Part(f, "oy") \o Part(f, "hx") \o Part(f, "hy")
    \o (IF "atkBox" \in DOMAIN f
        THEN << <<"atkBox.w", f.atkBox.w>>, <<"atkBox.h", f.atkBox.h>>,
                <<"atkBox.ox", f.atkBox.ox>>, <<"atkBox.oy", f.atkBox.oy>> >>
        ELSE <<>>)

\* loop_start_str: emitted when anim['loopStart'] is truthy
loop_start_str(a) ==
    IF a.loopStart # None /\ a.loopStart[1] # 0 THEN a.loopStart ELSE None

\* the lines main appends for one animation
Entry(n, a) ==
    [name |-> n, loop |-> a.loop, loopStart |-> loop_start_str(a),
     frames |-> [k \in 1..Len(a.frames) |-> format_frame(a.frames[k])]]

(***************************************************************************)
(* The generated module: X_ANIMATIONS and its lookup function.             *)
(***************************************************************************)
\* X_ANIMATIONS and ZERO_SHOOT_ANIM_MAP are object literals: a property the
\* literal does not define is looked up in Object.prototype, whose members
\* are functions, or an object for __proto__, and so are truthy
ObjectPrototype ==
    {"constructor", "hasOwnProperty", "isPrototypeOf", "propertyIsEnumerable",
     "toLocaleString", "toString", "valueOf", "__proto__", "__defineGetter__",
     "__defineSetter__", "__lookupGetter__", "__lookupSetter__"}

\* the value of an inherited member
Inherited(n) == [inherited |-> n]

\* the property name an inherited member turns into when it is used as a
\* key: its string form, which names no animation and no inherited member
MemberKey(n) ==
    IF n = "__proto__" THEN "[object Object]"
    ELSE IF n = "constructor" THEN "function Object() { [native code] }"
    ELSE "function " \o n \o "() { [native code] }"

\* the literal defines the key n
HasOwn(tbl, n) == \E k \in 1..Len(tbl) : tbl[k].name = n

\* X_ANIMATIONS[n] is truthy
HasAnim(tbl, n) == HasOwn(tbl, n) \/ n \in ObjectPrototype

\* X_ANIMATIONS[n]; undefined is None
AnimOf(tbl, n) ==
    IF HasOwn(tbl, n)
    THEN Some(tbl[CHOOSE k \in 1..Len(tbl) : tbl[k].name = n])
    ELSE IF n \in ObjectPrototype THEN Some(Inherited(n))
    ELSE None

\* ZERO_SHOOT_ANIM_MAP[state], as the key it is used as; undefined is None
ShootState(state) ==
    IF state \in DOMAIN ZERO_SHOOT_ANIM_MAP
    THEN Some(ZERO_SHOOT_ANIM_MAP[state])
    ELSE IF state \in ObjectPrototype THEN Some(MemberKey(state))
    ELSE None

\* X_ANIMATIONS[state] || X_ANIMATIONS.idle
OrIdle(tbl, state) ==
    IF HasAnim(tbl, state) THEN AnimOf(tbl, state) ELSE AnimOf(tbl, "idle")

getSigmaAnim(tbl, state) == OrIdle(tbl, state)

getZeroAnim(tbl, state, shooting) ==
    IF /\ shooting
       /\ ShootState(state) # None
       /\ HasAnim(tbl, ShootState(state)[1])
    THEN AnimOf(tbl, ShootState(state)[1])
    ELSE OrIdle(tbl, state)

resolve(c, tbl, state, firing) ==
    IF c = "sigma" THEN getSigmaAnim(tbl, state)
    ELSE getZeroAnim(tbl, state, firing)

(***************************************************************************)
(* Inputs.                                                                 *)
(***************************************************************************)
SeqsUpTo(S, n) == UNION {[1..k -> S] : k \in 0..n}

Pt(x, y) == [x |-> x, y |-> y]
Rect(tl, br) == [topLeftPoint |-> tl, botRightPoint |-> br]

BaseFrame == [rect |-> Rect(Pt(Q(0, 1), Q(0, 1)), Pt(Q(10, 1), Q(12, 1)))]

\* 0.5, 0.0166, 0.499, 0, 0.005, 0.025, 0.075, -0.1, 0.1 seconds, and
\* 1.025 and 2.075 seconds, whose double product with 60 misses the half
Durations ==
    {Q(1, 2), Q(166, 10000), Q(499, 1000), Q(0, 1), Q(1, 200), Q(1, 40),
     Q(3, 40), Q(-1, 10), Q(1, 10), Q(41, 40), Q(83, 40)}

PoiSamples ==
    {[tags |-> "", x |-> Q(3, 2), y |-> Q(-5, 2)],
     [tags |-> "", x |-> Q(7, 1), y |-> Q(4, 1)],
     [tags |-> "b", x |-> Q(5, 2), y |-> Q(-1, 2)],
     [tags |-> "b", x |-> Q(-9, 1), y |-> Q(6, 1)],
     [tags |-> "h", x |-> Q(1, 1), y |-> Q(-20, 1)],
     [x |-> Q(11, 1), y |-> Q(13, 1)]}

HitboxSamples ==
    {[flag |-> 0, width |-> Q(21, 2), height |-> Q(8, 1),
      offset |-> Pt(Q(3, 2), Q(-7, 2))],
     [flag |-> 0, width |-> Q(30, 1), height |-> Q(31, 1),
      offset |-> Pt(Q(32, 1), Q(-33, 1))],
     [flag |-> 1, width |-> Q(50, 1), height |-> Q(51, 1),
      offset |-> Pt(Q(52, 1), Q(53, 1))],
     [width |-> Q(5, 1), height |-> Q(6, 1)]}

OffsetSamples ==
    {Pt(Q(0, 1), Q(0, 1)), Pt(Q(1, 2), Q(3, 2)), Pt(Q(-3, 1), Q(0, 1)),
     [x |-> Q(2, 1)], Pt(Q(1, 4), Q(-3, 4))}

RectSamples ==
    {Rect(Pt(Q(-3, 2), Q(5, 2)), Pt(Q(17, 2), Q(-1, 2))),
     Rect(Pt(Q(3, 1), Q(4, 1)), Pt(Q(3, 1), Q(4, 1)))}

MalformedFrames ==
    {[duration |-> Q(1, 2)],
     [rect |-> [topLeftPoint |-> Pt(Q(0, 1), Q(0, 1))]],
     [rect |-> [botRightPoint |-> Pt(Q(0, 1), Q(0, 1))]],
     [rect |-> Rect([x |-> Q(0, 1)], Pt(Q(1, 1), Q(1, 1)))]}

\* a frame that carries every optional part
FullFrame ==
    BaseFrame @@
    [duration |-> Q(1, 2), offset |-> Pt(Q(-3, 1), Q(5, 2)),
     POIs |-> << [tags |-> "", x |-> Q(3, 2), y |-> Q(-5, 2)],
                 [tags |-> "b", x |-> Q(5, 2), y |-> Q(-1, 2)] >>,
     hitboxes |-> << [flag |-> 0, width |-> Q(21, 2), height |-> Q(8, 1),
                      offset |-> Pt(Q(3, 2), Q(-7, 2))] >>]

FrameSamples ==
    {BaseFrame, FullFrame}
    \cup {BaseFrame @@ [duration |-> d] : d \in Durations}
    \cup {BaseFrame @@ [POIs |-> ps] : ps \in SeqsUpTo(PoiSamples, MaxPois)}
    \cup {BaseFrame @@ [hitboxes |-> hs] :
            hs \in SeqsUpTo(HitboxSamples, MaxHitboxes)}
    \cup {BaseFrame @@ [offset |-> o] : o \in OffsetSamples}
    \cup {[rect |-> r] : r \in RectSamples}
    \cup MalformedFrames

WrapModes == {"once", "loop", "pingpong"}

\* documents whose frames are BaseFrame except for one sampled frame
FrameDocs ==
    {[frames |-> [k \in 1..L |-> IF k = j THEN f ELSE BaseFrame]] :
        <<L, j, f>> \in {t \in (1..MaxFrames) \X (1..MaxFrames) \X FrameSamples :
                            t[2] <= t[1]}}

\* documents that vary the wrap mode, the loop start and the frame count
LoopDocs ==
    UNION {
      { [frames |-> [k \in 1..L |-> BaseFrame]],
        [frames |-> [k \in 1..L |-> BaseFrame]] @@ [wrapMode |-> w],
        [frames |-> [k \in 1..L |-> BaseFrame]] @@ [loopStartFrame |-> s],
        [frames |-> [k \in 1..L |-> BaseFrame]]
            @@ [wrapMode |-> w, loopStartFrame |-> s] } :
      <<L, w, s>> \in (0..MaxFrames) \X WrapModes \X (-1..(MaxFrames + 1)) }

DataSamples == FrameDocs \cup LoopDocs \cup {[wrapMode |-> "loop"]}

Chars == {"sigma", "zero"}

\* the animations convert_anim is called for directly
ConvNames(c) ==
    {"idle", "attack", "attack_air", "attack_dash", "wall_slide_attack"}
    \cap AnimNames(c)

\* the calibration tool is not running
NoInputYet == [type |-> "unset"]

ToolOff ==
    /\ tpc = "off"
    /\ joystick = None
    /\ axis_baseline = <<>>
    /\ mapping = <<>>
    /\ axes = <<>>
    /\ last_input = NoInputYet
    /\ mapfile = None

(***************************************************************************)
(* A call of convert_anim(name, data).                                     *)
(***************************************************************************)
ConvInit ==
    /\ char \in Chars
    /\ name \in ConvNames(char)
    /\ data \in DataSamples
    /\ pc = "call"
    /\ anim = None
    /\ fs = <<>>
    /\ idx = 0
    /\ lines = <<>>
    /\ warnings = <<>>
    /\ out = None
    /\ query = None
    /\ result = None
    /\ ToolOff

ConvReturn ==
    /\ pc = "call"
    /\ ~convert_raises(data)
    /\ anim' = Some(convert_anim(char, name, data))
    /\ pc' = "returned"
    /\ UNCHANGED <<char, fs, idx, name, data, lines, warnings, out, query,
                   result>>
    /\ UNCHANGED toolvars

ConvRaise ==
    /\ pc = "call"
    /\ convert_raises(data)
    /\ pc' = "raised"
    /\ UNCHANGED <<char, fs, idx, name, data, anim, lines, warnings, out,
                   query, result>>
    /\ UNCHANGED toolvars

ConvNext == ConvReturn \/ ConvRaise

ConvSpec == ConvInit /\ [][ConvNext]_vars

(***************************************************************************)
(* A run of main().                                                        *)
(***************************************************************************)
PositionOf(c, n) == CHOOSE k \in 1..Len(ANIMS(c)) : ANIMS(c)[k] = n

\* the content of the sprite files of a run
PlainDoc == [frames |-> <<BaseFrame>>]

RichDoc(c, n) ==
    [wrapMode |-> "loop", loopStartFrame |-> PositionOf(c, n) % 3,
     frames |-> [k \in 1..(1 + (PositionOf(c, n) % MaxFrames)) |->
                    IF k = 1 THEN FullFrame ELSE BaseFrame]]

BadDoc == [frames |-> <<BaseFrame, [duration |-> Q(1, 2)]>>]

\* a document whose first frame has a rectangle without bottom-right corner
BadCornerDoc ==
    [frames |-> <<[rect |-> [topLeftPoint |-> Pt(Q(0, 1), Q(0, 1))]], BaseFrame>>]

BadDocs == {BadDoc, BadCornerDoc}

Missing(c) == {S \in SUBSET AnimNames(c) : Cardinality(S) <= MaxMissing}

\* sprite directories: up to MaxMissing files absent, the others well formed
GoodDirs(c) ==
    {[n \in AnimNames(c) |-> IF n \in S THEN None ELSE Some(PlainDoc)] :
        S \in Missing(c)}
    \cup
    {[n \in AnimNames(c) |-> IF n \in S THEN None ELSE Some(RichDoc(c, n))] :
        S \in Missing(c)}

\* sprite directories with one malformed file and at most one file absent
BadDirs(c) ==
    {[n \in AnimNames(c) |->
        IF n \in S THEN None
        ELSE IF n = m THEN Some(b) ELSE Some(PlainDoc)] :
        <<m, S, b>> \in AnimNames(c)
                        \X {S \in Missing(c) : Cardinality(S) <= 1}
                        \X BadDocs}

Dirs(c) == GoodDirs(c) \cup BadDirs(c)

QueryStates(c) ==
    AnimNames(c) \cup {"nonexistent_state", "constructor", "__proto__"}

MainInit ==
    /\ char \in Chars
    /\ fs \in Dirs(char)
    /\ pc = "loop"
    /\ idx = 1
    /\ name = ""
    /\ data = None
    /\ anim = None
    /\ lines = <<>>
    /\ warnings = <<>>
    /\ out = None
    /\ query = None
    /\ result = None
    /\ ToolOff

\* LoopSkip without the except clause: the missing file ends the run
LoopSkip_uncaught ==
    /\ pc = "loop"
    /\ idx <= Len(ANIMS(char))
    /\ fs[ANIMS(char)[idx]] = None
    /\ name' = ANIMS(char)[idx]
    /\ pc' = "aborted"
    /\ UNCHANGED <<char, fs, idx, data, anim, lines, warnings, out, query,
                   result>>
    /\ UNCHANGED toolvars

\* load_json raises FileNotFoundError: warn and continue
LoopSkip ==
    /\ pc = "loop"
    /\ idx <= Len(ANIMS(char))
    /\ fs[ANIMS(char)[idx]] = None
    /\ name' = ANIMS(char)[idx]
    /\ warnings' = Append(warnings, ANIMS(char)[idx])
    /\ idx' = idx + 1
    /\ UNCHANGED <<char, fs, pc, data, anim, lines, out, query, result>>
    /\ UNCHANGED toolvars

\* the file exists: convert it and append its entry
LoopConvert ==
    /\ pc = "loop"
    /\ idx <= Len(ANIMS(char))
    /\ fs[ANIMS(char)[idx]] # None
    /\ ~convert_raises(fs[ANIMS(char)[idx]][1])
    /\ name' = ANIMS(char)[idx]
    /\ data' = fs[ANIMS(char)[idx]]
    /\ anim' = Some(convert_anim(char, name', data'[1]))
    /\ lines' = Append(lines, Entry(name', anim'[1]))
    /\ idx' = idx + 1
    /\ UNCHANGED <<char, fs, pc, warnings, out, query, result>>
    /\ UNCHANGED toolvars

\* LoopRaise with the KeyError swallowed like a missing file
LoopRaise_swallow ==
    /\ pc = "loop"
    /\ idx <= Len(ANIMS(char))
    /\ fs[ANIMS(char)[idx]] # None
    /\ convert_raises(fs[ANIMS(char)[idx]][1])
    /\ name' = ANIMS(char)[idx]
    /\ data' = fs[ANIMS(char)[idx]]
    /\ idx' = idx + 1
    /\ UNCHANGED <<char, fs, pc, anim, lines, warnings, out, query, result>>
    /\ UNCHANGED toolvars

\* the file exists and convert_anim raises KeyError: the run ends there
LoopRaise ==
    /\ pc = "loop"
    /\ idx <= Len(ANIMS(char))
    /\ fs[ANIMS(char)[idx]] # None
    /\ convert_raises(fs[ANIMS(char)[idx]][1])
    /\ name' = ANIMS(char)[idx]
    /\ data' = fs[ANIMS(char)[idx]]
    /\ pc' = "aborted"
    /\ UNCHANGED <<char, fs, idx, anim, lines, warnings, out, query, result>>
    /\ UNCHANGED toolvars

\* after the loop: write the module (the table and the lookup function)
WriteOutput ==
    /\ pc = "loop"
    /\ idx > Len(ANIMS(char))
    /\ out' = Some(lines)
    /\ pc' = "done"
    /\ UNCHANGED <<char, fs, idx, name, data, anim, lines, warnings, query,
                   result>>
    /\ UNCHANGED toolvars

\* the game calls the lookup function of the written module; a lookup
\* changes nothing in the module, so one call per run is explored
Lookup ==
    /\ pc = "done"
    /\ \E state \in QueryStates(char), firing \in BOOLEAN :
        /\ query' = Some([state |-> state, firing |-> firing])
        /\ result' = resolve(char, out[1], state, firing)
    /\ pc' = "served"
    /\ UNCHANGED <<char, fs, idx, name, data, anim, lines, warnings, out>>
    /\ UNCHANGED toolvars

MainNext == LoopSkip \/ LoopConvert \/ LoopRaise \/ WriteOutput \/ Lookup

MainSpec == MainInit /\ [][MainNext]_vars

(***************************************************************************)
(* Properties of a call of convert_anim (ConvSpec).                        *)
(***************************************************************************)
Returned == pc = "returned"

\* the source frames and the compiled frames of the call that returned
Src == data.frames
Out == anim[1].frames


\* the positions of the POIs of a frame that carry tag t
Matching(fr, t) ==
    {k \in 1..Len(Get(fr, "POIs", <<>>)) : Get(fr.POIs[k], "tags", "") = t}

Lowest(S) == CHOOSE k \in S : \A j \in S : k <= j
Highest(S) == CHOOSE k \in S : \A j \in S : k >= j

RoundedPos(poi) ==
    <<round(Get(poi, "x", Zero0)), round(Get(poi, "y", Zero0))>>

NoAnchor(f) == "hx" \notin DOMAIN f /\ "hy" \notin DOMAIN f

AnchorAt(f, poi) ==
    /\ "hx" \in DOMAIN f
    /\ "hy" \in DOMAIN f
    /\ <<f.hx, f.hy>> = RoundedPos(poi)

\* C1 as stated: the anchor of every compiled frame is the rounded position
\* of the FIRST POI, in list order, whose tag is the character's primary
\* tag, and is absent when no POI carries that tag.
C1_FirstMatch ==
    Returned =>
        \A k \in 1..Len(Src) :
            LET M == Matching(Src[k], PrimaryTag(char))
            IN  IF M = {} THEN NoAnchor(Out[k])
                ELSE AnchorAt(Out[k], Src[k].POIs[Lowest(M)])

\* C1 amended: the anchor of every compiled frame is the rounded position
\* of the LAST POI, in list order, whose tag is the character's primary tag
\* (every match overwrites the previous one), and is absent when no POI
\* carries that tag.
C1_LastMatch ==
    Returned =>
        \A k \in 1..Len(Src) :
            LET M == Matching(Src[k], PrimaryTag(char))
            IN  IF M = {} THEN NoAnchor(Out[k])
                ELSE AnchorAt(Out[k], Src[k].POIs[Highest(M)])

\* a frame with two primary-tag POIs at different rounded positions was
\* compiled and carries the position of the second one
C1_Witness ==
    /\ Returned
    /\ \E k \in 1..Len(Src) :
        LET M == Matching(Src[k], PrimaryTag(char))
        IN  /\ Cardinality(M) >= 2
            /\ RoundedPos(Src[k].POIs[Lowest(M)])
                    # RoundedPos(Src[k].POIs[Highest(M)])
            /\ AnchorAt(Out[k], Src[k].POIs[Highest(M)])

\* r is an integer nearest to seconds*60 for the duration q = seconds: no
\* integer is nearer.  Where seconds*60 is exactly halfway, both neighbours
\* are nearest, and the double product decides which one round() returns.
IsRounded(r, q) == 2 * Abs(r * q[2] - 60 * q[1]) <= q[2]

\* d is max(1, round(seconds*60))
IsComputedDuration(d, q) ==
    \/ d > 1 /\ IsRounded(d, q)
    \/ d = 1 /\ (IsRounded(1, q) \/ 120 * q[1] <= q[2])

SourceSeconds(fr) == IF "duration" \in DOMAIN fr THEN fr.duration ELSE Q(66, 1000)

DurationOverridden(k) ==
    char = "sigma" /\ HasOverride(MANUAL_DURATIONS, name, k - 1)

\* C2: a frame whose index has a duration override compiles to exactly the
\* override value, whatever the source duration; a frame without override
\* compiles to max(1, round(seconds*60)), and 0.5 s gives 30.
C2_DurationOverride ==
    Returned =>
        \A k \in 1..Len(Src) :
            IF DurationOverridden(k)
            THEN Out[k].dur = MANUAL_DURATIONS[name][k - 1]
            ELSE /\ IsComputedDuration(Out[k].dur, SourceSeconds(Src[k]))
                 /\ SourceSeconds(Src[k]) = Q(1, 2) => Out[k].dur = 30

\* an overridden frame whose source duration is 0.5 s (30 game frames)
\* compiled to the override value, which is neither 30 nor below it by clamp
C2_Witness ==
    /\ Returned
    /\ \E k \in 1..Len(Src) :
        /\ DurationOverridden(k)
        /\ SourceSeconds(Src[k]) = Q(1, 2)
        /\ Out[k].dur = MANUAL_DURATIONS[name][k - 1]
        /\ Out[k].dur # 30

AtkOverridden(k) ==
    char = "sigma" /\ HasOverride(MANUAL_ATK_BOXES, name, k - 1)

HasDamageHitbox(fr) ==
    \E j \in 1..Len(Get(fr, "hitboxes", <<>>)) : Get(fr.hitboxes[j], "flag", 0) = 0

\* C3: a frame with an attack-box override compiles to the override's four
\* fields together, with or without a damage hitbox in the source frame; a
\* frame with neither has no attack box.
C3_AtkBoxOverride ==
    Returned =>
        \A k \in 1..Len(Src) :
            /\ AtkOverridden(k) =>
                /\ "atkBox" \in DOMAIN Out[k]
                /\ Out[k].atkBox.w = MANUAL_ATK_BOXES[name][k - 1].w
                /\ Out[k].atkBox.h = MANUAL_ATK_BOXES[name][k - 1].h
                /\ Out[k].atkBox.ox = MANUAL_ATK_BOXES[name][k - 1].ox
                /\ Out[k].atkBox.oy = MANUAL_ATK_BOXES[name][k - 1].oy
            /\ (~AtkOverridden(k) /\ ~HasDamageHitbox(Src[k])) =>
                "atkBox" \notin DOMAIN Out[k]

\* an overridden frame whose source damage hitbox differs from the override
\* in every field compiled to the override
C3_Witness ==
    /\ Returned
    /\ \E k \in 1..Len(Src) :
        /\ AtkOverridden(k)
        /\ HasDamageHitbox(Src[k])
        /\ LET h == HitboxAtkBox(Src[k]).atkBox
               o == MANUAL_ATK_BOXES[name][k - 1]
           IN  h.w # o.w /\ h.h # o.h /\ h.ox # o.ox /\ h.oy # o.oy
        /\ Out[k].atkBox = MANUAL_ATK_BOXES[name][k - 1]

\* the frame indices the override tables name for animation n
OverrideIndices(c, n) ==
    IF c = "sigma"
    THEN (IF n \in DOMAIN MANUAL_DURATIONS
          THEN DOMAIN MANUAL_DURATIONS[n] ELSE {})
         \cup (IF n \in DOMAIN MANUAL_ATK_BOXES
               THEN DOMAIN MANUAL_ATK_BOXES[n] ELSE {})
    ELSE {}

\* C4 as stated: a conversion never completes while an override names a
\* frame index the source animation does not have (it aborts instead).
C4_OverrideMismatchFails ==
    Returned => \A i \in OverrideIndices(char, name) : i < Len(Src)

\* C5: every compiled frame has a duration of at least 1.
C5_DurationAtLeastOne ==
    Returned => \A k \in 1..Len(Src) : Out[k].dur >= 1

\* a frame whose source duration is below half a game frame (it rounds to
\* 0 or less) and has no override compiled to 1
C5_Witness ==
    /\ Returned
    /\ \E k \in 1..Len(Src) :
        /\ ~DurationOverridden(k)
        /\ 120 * SourceSeconds(Src[k])[1] <= SourceSeconds(Src[k])[2]
        /\ Out[k].dur = 1

(***************************************************************************)
(* Properties of a run of main and of the module it writes (MainSpec).     *)
(***************************************************************************)
Served == pc = "served"

\* the result is the entry of the written table named n
IsEntryNamed(r, n) ==
    /\ r # None
    /\ "name" \in DOMAIN r[1]
    /\ r[1].name = n
    /\ \E k \in 1..Len(out[1]) : out[1][k] = r[1]

InTable(n) == \E k \in 1..Len(out[1]) : out[1][k].name = n

OverlayApplies(state, firing) ==
    /\ char = "zero"
    /\ firing
    /\ state \in {"idle", "run", "jump", "fall", "dash", "wall_slide"}
    /\ InTable(ZERO_SHOOT_ANIM_MAP[state])

\* C6 as stated: the lookup returns the overlay animation when firing, the
\* state is mapped and the overlay is in the table; otherwise the animation
\* of the state when it is in the table; otherwise the table's idle entry.
\* Sigma has no overlay map, so firing never matters there.
C6_ResolvePriority ==
    Served =>
        LET state == query[1].state
            firing == query[1].firing
        IN  IF OverlayApplies(state, firing)
            THEN IsEntryNamed(result, ZERO_SHOOT_ANIM_MAP[state])
            ELSE IF InTable(state) THEN IsEntryNamed(result, state)
            ELSE IF InTable("idle") THEN IsEntryNamed(result, "idle")
            ELSE result = None

Finished == pc \in {"done", "served"}

\* C7 as stated: when the idle source file is missing the run aborts and no
\* module is written.
C7_MissingIdleFatal ==
    fs["idle"] = None => (out = None /\ ~Finished)

\* the configured animations whose source file exists, in configured order
Present == SelectSeq(ANIMS(char), LAMBDA n : fs[n] # None)
Absent == SelectSeq(ANIMS(char), LAMBDA n : fs[n] = None)

WellFormed(n) == fs[n] # None /\ ~convert_raises(fs[n][1])

\* C8: missing source files never abort the run; each is skipped with a
\* warning, and the written table holds exactly the animations whose source
\* exists, in the configured order, each compiled from its own file alone.
C8_MissingSkipped ==
    /\ pc = "aborted" => \E n \in AnimNames(char) :
                            fs[n] # None /\ convert_raises(fs[n][1])
    /\ (\A n \in AnimNames(char) : fs[n] = None \/ WellFormed(n)) =>
        /\ pc = "loop" => (out = None /\ idx <= Len(ANIMS(char)) + 1)
        /\ Finished =>
            /\ out # None
            /\ Len(out[1]) = Len(Present)
            /\ \A k \in 1..Len(Present) :
                out[1][k] = Entry(Present[k],
                                  convert_anim(char, Present[k], fs[Present[k]][1]))
            /\ warnings = Absent

\* a run with MaxMissing files missing, the first configured one among
\* them, finished and wrote the shorter table
C8_Witness ==
    /\ pc = "done"
    /\ Len(Absent) = MaxMissing
    /\ out # None
    /\ Len(out[1]) = Len(ANIMS(char)) - MaxMissing
    /\ out[1][1].name = ANIMS(char)[2]

(***************************************************************************)
(* Loop flag and loop start (ConvSpec).                                    *)
(***************************************************************************)

\* C9 as stated: a loopStart carried by a compiled animation is a valid
\* zero-based index into its compiled frames.
C9_LoopStartValid ==
    (Returned /\ anim[1].loopStart # None) =>
        (0 <= anim[1].loopStart[1] /\ anim[1].loopStart[1] < Len(Out))

SourceLoops == "wrapMode" \in DOMAIN data /\ data.wrapMode = "loop"

SourceLoopStart ==
    IF "loopStartFrame" \in DOMAIN data THEN data.loopStartFrame ELSE 0

\* C10: loop is true exactly when the source wrap mode is "loop"; a loop
\* start is carried, and emitted in the entry, exactly when the animation
\* loops and the source loop start is strictly positive, and it is then the
\* source value; a non-looping animation never carries one.
C10_LoopFlagAndStart ==
    Returned =>
        /\ anim[1].loop = SourceLoops
        /\ (anim[1].loopStart # None) = (SourceLoops /\ SourceLoopStart > 0)
        /\ anim[1].loopStart # None => anim[1].loopStart = <<SourceLoopStart>>
        /\ Entry(name, anim[1]).loop = SourceLoops
        /\ Entry(name, anim[1]).loopStart = anim[1].loopStart

\* a looping animation with a positive source loop start returned carrying
\* that loop start
C10_Witness ==
    /\ Returned
    /\ SourceLoops
    /\ SourceLoopStart > 0
    /\ anim[1].loop
    /\ anim[1].loopStart = <<SourceLoopStart>>
    /\ Entry(name, anim[1]).loopStart = <<SourceLoopStart>>

(***************************************************************************)
(* Hitboxes, frame alignment, rectangles and offsets (ConvSpec).           *)
(***************************************************************************)

\* the positions of the hitboxes of a frame whose flag is 0
DamagePositions(fr) ==
    {j \in 1..Len(Get(fr, "hitboxes", <<>>)) : Get(fr.hitboxes[j], "flag", 0) = 0}

NumberOr0(r, k) == IF k \in DOMAIN r THEN r[k] ELSE Q(0, 1)

\* the attack box of hitbox hb, every field rounded
RoundedBox(hb) ==
    LET off == IF "offset" \in DOMAIN hb THEN hb.offset ELSE <<>>
    IN  [w |-> round(NumberOr0(hb, "width")),
         h |-> round(NumberOr0(hb, "height")),
         ox |-> round(NumberOr0(off, "x")),
         oy |-> round(NumberOr0(off, "y"))]

\* C11: without an override, the attack box of a compiled frame is built
\* from the first hitbox in source order whose flag is 0, its fields
\* rounded; hitboxes with a nonzero flag never contribute, even in front of
\* it; there is no attack box when no hitbox has flag 0.
C11_FirstDamageHitbox ==
    Returned =>
        \A k \in 1..Len(Src) :
            ~AtkOverridden(k) =>
                IF DamagePositions(Src[k]) = {}
                THEN "atkBox" \notin DOMAIN Out[k]
                ELSE /\ "atkBox" \in DOMAIN Out[k]
                     /\ Out[k].atkBox =
                            RoundedBox(Src[k].hitboxes[Lowest(DamagePositions(Src[k]))])

\* a frame whose first hitbox has flag 1 and whose second has flag 0 was
\* compiled to the box of the second, which differs from that of the first
C11_Witness ==
    /\ Returned
    /\ \E k \in 1..Len(Src) :
        /\ ~AtkOverridden(k)
        /\ "hitboxes" \in DOMAIN Src[k]
        /\ Len(Src[k].hitboxes) = 2
        /\ DamagePositions(Src[k]) = {2}
        /\ RoundedBox(Src[k].hitboxes[1]) # RoundedBox(Src[k].hitboxes[2])
        /\ Out[k].atkBox = RoundedBox(Src[k].hitboxes[2])

\* C12: the compiled frames are as many as the source frames, compiled
\* frame i is derived from source frame i, and the overrides of a frame are
\* looked up with that same zero-based position.
C12_FrameAlignment ==
    Returned =>
        /\ Len(Out) = Len(Src)
        /\ Len(Src) >= 1 => Len(Out) >= 1
        /\ \A k \in 1..Len(Src) :
            /\ Out[k] = convert_frame(char, name, k - 1, Src[k])
            /\ DurationOverridden(k) =>
                Out[k].dur = MANUAL_DURATIONS[name][k - 1]
            /\ ~DurationOverridden(k) =>
                IsComputedDuration(Out[k].dur, SourceSeconds(Src[k]))
            /\ ("atkBox" \in DOMAIN Out[k]) =
                (AtkOverridden(k) \/ DamagePositions(Src[k]) # {})

\* an animation with overrides on some of its frames only returned, with a
\* later frame carrying its own source rectangle and not that of the first
C12_Witness ==
    /\ Returned
    /\ Len(Src) >= 3
    /\ \E k \in 2..Len(Src) :
        /\ Src[k].rect # Src[1].rect
        /\ Out[k].sw # Out[1].sw
        /\ Out[k].sw = int(Src[k].rect.botRightPoint.x)
                        - int(Src[k].rect.topLeftPoint.x)
    /\ \E i, j \in 1..Len(Src) : AtkOverridden(i) /\ ~AtkOverridden(j)

\* f is the floor of q
IsFloor(f, q) == f * q[2] <= q[1] /\ q[1] < (f + 1) * q[2]

\* t is q truncated toward zero
IsTrunc(t, q) ==
    IF q[1] >= 0 THEN t * q[2] <= q[1] /\ q[1] < (t + 1) * q[2]
    ELSE (t - 1) * q[2] < q[1] /\ q[1] <= t * q[2]

\* C13 as stated: the compiled rectangle is x = floor(topLeft.x),
\* y = floor(topLeft.y), width = floor(botRight.x) - floor(topLeft.x),
\* height = floor(botRight.y) - floor(topLeft.y), for negative and
\* fractional corners too.
C13_RectFloor ==
    Returned =>
        \A k \in 1..Len(Src) :
            LET tl == Src[k].rect.topLeftPoint
                br == Src[k].rect.botRightPoint
            IN  /\ IsFloor(Out[k].sx, tl.x)
                /\ IsFloor(Out[k].sy, tl.y)
                /\ IsFloor(Out[k].sx + Out[k].sw, br.x)
                /\ IsFloor(Out[k].sy + Out[k].sh, br.y)

\* C13 amended: each corner coordinate is truncated toward zero (which is
\* the floor only for coordinates >= 0 or integral), independently, before
\* the subtraction: x = trunc(topLeft.x), y = trunc(topLeft.y),
\* width = trunc(botRight.x) - trunc(topLeft.x),
\* height = trunc(botRight.y) - trunc(topLeft.y).
C13_RectTrunc ==
    Returned =>
        \A k \in 1..Len(Src) :
            LET tl == Src[k].rect.topLeftPoint
                br == Src[k].rect.botRightPoint
            IN  /\ IsTrunc(Out[k].sx, tl.x)
                /\ IsTrunc(Out[k].sy, tl.y)
                /\ IsTrunc(Out[k].sx + Out[k].sw, br.x)
                /\ IsTrunc(Out[k].sy + Out[k].sh, br.y)
                /\ (tl.x[1] >= 0 /\ tl.y[1] >= 0 /\ br.x[1] >= 0 /\ br.y[1] >= 0)
                    => /\ IsFloor(Out[k].sx, tl.x)
                       /\ IsFloor(Out[k].sy, tl.y)
                       /\ IsFloor(Out[k].sx + Out[k].sw, br.x)
                       /\ IsFloor(Out[k].sy + Out[k].sh, br.y)

\* a frame whose top-left x is negative and fractional compiled to the
\* truncated value, one above the floor
C13_Witness ==
    /\ Returned
    /\ \E k \in 1..Len(Src) :
        LET x == Src[k].rect.topLeftPoint.x
        IN  /\ x[1] < 0
            /\ x[1] % x[2] # 0
            /\ IsTrunc(Out[k].sx, x)
            /\ IsFloor(Out[k].sx - 1, x)

SourceOffset(fr, axis) ==
    IF "offset" \in DOMAIN fr /\ axis \in DOMAIN fr.offset
    THEN fr.offset[axis] ELSE Q(0, 1)

HasPart(parts, key) == \E j \in 1..Len(parts) : parts[j][1] = key

\* C14: each rendering-offset axis is handled on its own: the compiled
\* frame and its serialized form contain ox exactly when the rounded source
\* offset x is nonzero, oy exactly when the rounded source offset y is
\* nonzero; a frame without source offset has neither.
C14_OffsetAxes ==
    Returned =>
        \A k \in 1..Len(Src) :
            /\ ("ox" \in DOMAIN Out[k]) = (round(SourceOffset(Src[k], "x")) # 0)
            /\ ("oy" \in DOMAIN Out[k]) = (round(SourceOffset(Src[k], "y")) # 0)
            /\ "ox" \in DOMAIN Out[k] => Out[k].ox = round(SourceOffset(Src[k], "x"))
            /\ "oy" \in DOMAIN Out[k] => Out[k].oy = round(SourceOffset(Src[k], "y"))
            /\ HasPart(format_frame(Out[k]), "ox") = (round(SourceOffset(Src[k], "x")) # 0)
            /\ HasPart(format_frame(Out[k]), "oy") = (round(SourceOffset(Src[k], "y")) # 0)
            /\ "offset" \notin DOMAIN Src[k] =>
                ("ox" \notin DOMAIN Out[k] /\ "oy" \notin DOMAIN Out[k])

\* a frame whose source offset x is nonzero but rounds to 0 while its y
\* rounds to a nonzero value compiled to a frame with oy and without ox
C14_Witness ==
    /\ Returned
    /\ \E k \in 1..Len(Src) :
        /\ "offset" \in DOMAIN Src[k]
        /\ SourceOffset(Src[k], "x")[1] # 0
        /\ round(SourceOffset(Src[k], "x")) = 0
        /\ "ox" \notin DOMAIN Out[k]
        /\ "oy" \in DOMAIN Out[k]
        /\ HasPart(format_frame(Out[k]), "oy")
        /\ ~HasPart(format_frame(Out[k]), "ox")

(***************************************************************************)
(* Malformed source files (MainSpec).                                      *)
(***************************************************************************)

\* the positions in ANIMS of the existing files with a malformed frame
MalformedPositions ==
    {k \in 1..Len(ANIMS(char)) :
        fs[ANIMS(char)[k]] # None /\ convert_raises(fs[ANIMS(char)[k]][1])}

\* C15: when a frame of an existing source file lacks its rectangle or one
\* of its corners, the run never writes the output module: it cannot pass
\* the first malformed animation and ends there, wherever that animation is
\* in the configured order.
C15_MalformedAborts ==
    MalformedPositions # {} =>
        /\ out = None
        /\ pc \in {"loop", "aborted"}
        /\ idx <= Lowest(MalformedPositions)
        /\ pc = "aborted" => idx = Lowest(MalformedPositions)

\* a run that had converted several animations and skipped a missing one
\* ended at a malformed file without an output module
C15_Witness ==
    /\ pc = "aborted"
    /\ Len(lines) >= 2
    /\ Len(warnings) >= 1
    /\ MalformedPositions # {}
    /\ out = None

(***************************************************************************)
(* tools/map-controller.py.                                                *)
(*                                                                         *)
(* An axis value is a rational <<n, d>>; a hat value is a pair <<hx, hy>>. *)
(* What detect_any_input returns is a record: [type |-> "none"] is None.   *)
(***************************************************************************)
AXIS_DEADZONE == Q(1, 2)

NoInput == [type |-> "none"]
KeepWaiting == [type |-> "wait"]

\* abs(val - rest) > AXIS_DEADZONE
BeyondDeadzone(val, rest) ==
    Abs(val[1] * rest[2] - rest[1] * val[2]) * AXIS_DEADZONE[2]
        > AXIS_DEADZONE[1] * val[2] * rest[2]

\* 1 if val > rest else -1
Direction(val, rest) ==
    IF val[1] * rest[2] > rest[1] * val[2] THEN 1 ELSE -1

\* detect_any_input: the loop over the events of one iteration
RECURSIVE ScanEvents(_, _, _, _, _)
ScanEvents(events, bl, accept_buttons, accept_axes, accept_hats) ==
    IF events = <<>> THEN KeepWaiting
    ELSE LET event == Head(events)
         IN  IF event.type = "QUIT" THEN NoInput
             ELSE IF event.type = "KEYDOWN" /\ event.key = "ESCAPE" THEN NoInput
             ELSE IF accept_buttons /\ event.type = "JOYBUTTONDOWN"
             THEN [type |-> "button", index |-> event.button]
             ELSE IF /\ accept_hats
                     /\ event.type = "JOYHATMOTION"
                     /\ event.value # <<0, 0>>
             THEN [type |-> "hat", index |-> event.hat, value |-> event.value]
             ELSE IF /\ accept_axes
                     /\ event.type = "JOYAXISMOTION"
                     /\ BeyondDeadzone(event.value, Get(bl, event.axis, Zero0))
             THEN [type |-> "axis", index |-> event.axis,
                   direction |-> Direction(event.value,
                                           Get(bl, event.axis, Zero0))]
             ELSE ScanEvents(Tail(events), bl, accept_buttons, accept_axes,
                             accept_hats)

\* detect_any_input: the fallback that polls the joystick state
PollState(st, bl, accept_buttons, accept_axes, accept_hats) ==
    LET activeHats == {h \in DOMAIN st.hats : st.hats[h] # <<0, 0>>}
        activeAxes == {a \in DOMAIN st.axes :
                          BeyondDeadzone(st.axes[a], Get(bl, a, Zero0))}
    IN  IF accept_buttons /\ st.buttons # {}
        THEN [type |-> "button", index |-> Lowest(st.buttons)]
        ELSE IF accept_hats /\ activeHats # {}
        THEN [type |-> "hat", index |-> Lowest(activeHats),
              value |-> st.hats[Lowest(activeHats)]]
        ELSE IF accept_axes /\ activeAxes # {}
        THEN [type |-> "axis", index |-> Lowest(activeAxes),
              direction |-> Direction(st.axes[Lowest(activeAxes)],
                                      Get(bl, Lowest(activeAxes), Zero0))]
        ELSE KeepWaiting

\* detect_any_input on the iteration that ends the wait: in.timeout says the
\* 30 seconds ran out first, otherwise in.events are the queued events and
\* in.state the joystick state of that iteration
detect_any_input(in, bl, accept_buttons, accept_axes, accept_hats) ==
    IF in.timeout THEN NoInput
    ELSE LET r == ScanEvents(in.events, bl, accept_buttons, accept_axes,
                             accept_hats)
         IN  IF r # KeepWaiting THEN r
             ELSE PollState(in.state, bl, accept_buttons, accept_axes,
                            accept_hats)

\* map_button: the button index, or None
map_button(in, bl) ==
    LET r == detect_any_input(in, bl, TRUE, FALSE, FALSE)
    IN  IF r = NoInput THEN None ELSE Some(r.index)

\* map_dpad: {"hat_index": ...}, or None
map_dpad(in, bl) ==
    LET r == detect_any_input(in, bl, FALSE, FALSE, TRUE)
    IN  IF r = NoInput THEN None ELSE Some([hat_index |-> r.index])

(***************************************************************************)
(* Controllers and inputs.                                                 *)
(***************************************************************************)
Joysticks ==
    {[name |-> "8BitDo Pro 2", n_buttons |-> b, n_axes |-> a, n_hats |-> h] :
        <<b, a, h>> \in (0..MaxButtons) \X (0..MaxAxes) \X (0..MaxHats)}

\* read_axis_baseline: every axis rests at 0, or the last one (a trigger)
\* rests at -1
Baselines(js) ==
    {[a \in 0..(js.n_axes - 1) |-> Q(0, 1)],
     [a \in 0..(js.n_axes - 1) |->
        IF a = js.n_axes - 1 THEN Q(-1, 1) ELSE Q(0, 1)]}

AxisValues == {Q(-1, 1), Q(3, 10), Q(1, 1)}
HatValues == {<<0, 0>>, <<1, 0>>, <<0, -1>>}

EventSamples(js) ==
    {[type |-> "QUIT"], [type |-> "KEYDOWN", key |-> "ESCAPE"],
     [type |-> "KEYDOWN", key |-> "a"]}
    \cup {[type |-> "JOYBUTTONDOWN", button |-> b] : b \in 0..(js.n_buttons - 1)}
    \cup {[type |-> "JOYHATMOTION", hat |-> h, value |-> v] :
            <<h, v>> \in (0..(js.n_hats - 1)) \X HatValues}
    \cup {[type |-> "JOYAXISMOTION", axis |-> a, value |-> v] :
            <<a, v>> \in (0..(js.n_axes - 1)) \X AxisValues}

Released(js, bl) ==
    [buttons |-> {}, hats |-> [h \in 0..(js.n_hats - 1) |-> <<0, 0>>],
     axes |-> bl]

\* joystick states with some buttons down, one hat off centre or one axis
\* away from its resting value
StateSamples(js, bl) ==
    {Released(js, bl)}
    \cup {[Released(js, bl) EXCEPT !.buttons = S] :
            S \in SUBSET (0..(js.n_buttons - 1)) \ {{}}}
    \cup {[Released(js, bl) EXCEPT !.hats[h] = v] :
            <<h, v>> \in (0..(js.n_hats - 1)) \X (HatValues \ {<<0, 0>>})}
    \cup {[Released(js, bl) EXCEPT !.axes[a] = v] :
            <<a, v>> \in (0..(js.n_axes - 1)) \X AxisValues}

\* the iterations that can end a wait: a timeout, one or two queued events
\* with the joystick at rest, or no event and a joystick state, or a
\* harmless key event in front of a joystick state
Inputs(js, bl) ==
    {[timeout |-> TRUE, events |-> <<>>, state |-> Released(js, bl)]}
    \cup {[timeout |-> FALSE, events |-> <<e>>, state |-> Released(js, bl)] :
            e \in EventSamples(js)}
    \cup {[timeout |-> FALSE, events |-> <<e1, e2>>, state |-> Released(js, bl)] :
            <<e1, e2>> \in EventSamples(js) \X EventSamples(js)}
    \cup {[timeout |-> FALSE, events |-> ev, state |-> st] :
            <<ev, st>> \in {<<>>, <<[type |-> "KEYDOWN", key |-> "a"]>>}
                            \X StateSamples(js, bl)}

(***************************************************************************)
(* A run of the tool's main().                                             *)
(***************************************************************************)
ToolInit ==
    /\ tpc = "connect"
    /\ joystick = None
    /\ axis_baseline = <<>>
    /\ mapping = <<>>
    /\ axes = <<>>
    /\ last_input = NoInputYet
    /\ mapfile = None
    /\ char = ""
    /\ fs = <<>>
    /\ pc = "off"
    /\ idx = 0
    /\ name = ""
    /\ data = None
    /\ anim = None
    /\ lines = <<>>
    /\ warnings = <<>>
    /\ out = None
    /\ query = None
    /\ result = None

\* the step that follows the d-pad step
AfterDpad(js) == IF js.n_axes >= 2 THEN "analog_right" ELSE "save"

\* the step that follows the dash step
AfterDash(js) == IF js.n_hats > 0 THEN "dpad" ELSE AfterDpad(js)

\* QUIT or ESC while waiting for a controller
ConnectCancel ==
    /\ tpc = "connect"
    /\ tpc' = "quit"
    /\ UNCHANGED <<joystick, axis_baseline, mapping, axes, last_input, mapfile>>
    /\ UNCHANGED convvars

\* a controller is found: read its sizes and the axis baseline, start the
\* mapping with its name
Connect ==
    /\ tpc = "connect"
    /\ \E js \in Joysticks :
        /\ joystick' = Some(js)
        /\ axis_baseline' \in Baselines(js)
        /\ mapping' = << <<"controller_name", js.name>> >>
    /\ tpc' = "shoot"
    /\ UNCHANGED <<axes, last_input, mapfile>>
    /\ UNCHANGED convvars

\* steps 1 to 3 of main: map_button, then quit on None or store the button
ButtonStep(step, next) ==
    /\ tpc = step
    /\ \E in \in Inputs(joystick[1], axis_baseline) :
        /\ detect_any_input(in, axis_baseline, TRUE, FALSE, FALSE) # KeepWaiting
        /\ last_input' = detect_any_input(in, axis_baseline, TRUE, FALSE, FALSE)
        /\ IF map_button(in, axis_baseline) = None
           THEN tpc' = "quit" /\ mapping' = mapping
           ELSE /\ mapping' = Append(mapping, <<step, map_button(in, axis_baseline)[1]>>)
                /\ tpc' = next
    /\ UNCHANGED <<joystick, axis_baseline, axes, mapfile>>
    /\ UNCHANGED convvars

StepShoot == ButtonStep("shoot", "jump")

StepJump == ButtonStep("jump", "dash")

\* StepDash without the test for None: the result is stored as it is
StepDash_unchecked ==
    /\ tpc = "dash"
    /\ \E in \in Inputs(joystick[1], axis_baseline) :
        /\ detect_any_input(in, axis_baseline, TRUE, FALSE, FALSE) # KeepWaiting
        /\ last_input' = detect_any_input(in, axis_baseline, TRUE, FALSE, FALSE)
        /\ mapping' = Append(mapping, <<"dash", map_button(in, axis_baseline)>>)
        /\ tpc' = AfterDash(joystick[1])
    /\ UNCHANGED <<joystick, axis_baseline, axes, mapfile>>
    /\ UNCHANGED convvars

StepDash == ButtonStep("dash", AfterDash(joystick[1]))

\* step 4 of main, taken when the controller has a hat
StepDpad ==
    /\ tpc = "dpad"
    /\ \E in \in Inputs(joystick[1], axis_baseline) :
        /\ detect_any_input(in, axis_baseline, FALSE, FALSE, TRUE) # KeepWaiting
        /\ last_input' = detect_any_input(in, axis_baseline, FALSE, FALSE, TRUE)
        /\ IF map_dpad(in, axis_baseline) = None
           THEN tpc' = "quit" /\ mapping' = mapping
           ELSE /\ mapping' = Append(mapping, <<"dpad", map_dpad(in, axis_baseline)[1]>>)
                /\ tpc' = AfterDpad(joystick[1])
    /\ UNCHANGED <<joystick, axis_baseline, axes, mapfile>>
    /\ UNCHANGED convvars

\* step 5 of main, map_analog, first direction (RIGHT)
StepAnalogRight ==
    /\ tpc = "analog_right"
    /\ \E in \in Inputs(joystick[1], axis_baseline) :
        LET r == detect_any_input(in, axis_baseline, FALSE, TRUE, FALSE)
        IN  /\ r # KeepWaiting
            /\ last_input' = r
            /\ IF r = NoInput
               THEN tpc' = "quit" /\ axes' = <<>>
               ELSE /\ axes' = [x_axis |-> r.index, x_invert |-> r.direction < 0]
                    /\ tpc' = "analog_up"
    /\ UNCHANGED <<joystick, axis_baseline, mapping, mapfile>>
    /\ UNCHANGED convvars

\* map_analog, second direction (UP), and the store of its result
StepAnalogUp ==
    /\ tpc = "analog_up"
    /\ \E in \in Inputs(joystick[1], axis_baseline) :
        LET r == detect_any_input(in, axis_baseline, FALSE, TRUE, FALSE)
        IN  /\ r # KeepWaiting
            /\ last_input' = r
            /\ IF r = NoInput
               THEN tpc' = "quit" /\ axes' = axes /\ mapping' = mapping
               ELSE /\ axes' = axes @@ [y_axis |-> r.index,
                                        y_invert |-> r.direction > 0]
                    /\ mapping' = Append(mapping, <<"analog", axes'>>)
                    /\ tpc' = "save"
    /\ UNCHANGED <<joystick, axis_baseline, mapfile>>
    /\ UNCHANGED convvars

\* json.dump(mapping) into controller-map.json, then the summary screen
Save ==
    /\ tpc = "save"
    /\ mapfile' = Some(mapping)
    /\ tpc' = "summary"
    /\ UNCHANGED <<joystick, axis_baseline, mapping, axes, last_input>>
    /\ UNCHANGED convvars

\* any key, button or window close ends the summary screen
CloseSummary ==
    /\ tpc = "summary"
    /\ tpc' = "closed"
    /\ UNCHANGED <<joystick, axis_baseline, mapping, axes, last_input, mapfile>>
    /\ UNCHANGED convvars

ToolNext ==
    \/ ConnectCancel
    \/ Connect
    \/ StepShoot
    \/ StepJump
    \/ StepDash
    \/ StepDpad
    \/ StepAnalogRight
    \/ StepAnalogUp
    \/ Save
    \/ CloseSummary

ToolSpec == ToolInit /\ [][ToolNext]_vars

Init == ConvInit \/ MainInit \/ ToolInit

Next == ConvNext \/ MainNext \/ ToolNext

Spec == Init /\ [][Next]_vars

(***************************************************************************)
(* Claim C16.                                                              *)
(***************************************************************************)
Keys(m) == [i \in 1..Len(m) |-> m[i][1]]

Range(s) == {s[i] : i \in 1..Len(s)}

\* the keys of a complete mapping for controller js, in the order main
\* assigns them
ExpectedKeys(js) ==
    <<"controller_name", "shoot", "jump", "dash">>
        \o (IF js.n_hats > 0 THEN <<"dpad">> ELSE <<>>)
        \o (IF js.n_axes >= 2 THEN <<"analog">> ELSE <<>>)

\* how many keys the mapping holds when the tool stands at a step
KeysAt(step, js) ==
    CASE step = "shoot" -> 1
      [] step = "jump" -> 2
      [] step = "dash" -> 3
      [] step = "dpad" -> 4
      [] step \in {"analog_right", "analog_up"} -> Len(ExpectedKeys(js)) - 1
      [] OTHER -> Len(ExpectedKeys(js))

IsPrefix(s, t) == Len(s) <= Len(t) /\ s = SubSeq(t, 1, Len(s))

FileWritten == mapfile # None

\* C16: the mapping file is written only after shoot, jump, dash, then the
\* d-pad (only with at least one hat) and the analog stick (only with at least
\* two axes) have each returned an input, in that order; a step that ends
\* with a cancel or a timeout makes the tool quit without writing the file;
\* a written file has controller_name, shoot, jump and dash, has dpad exactly
\* when a hat exists and analog exactly when two axes exist.
C16_FileAfterAllSteps ==
    /\ last_input = NoInput => tpc = "quit"
    /\ tpc = "quit" => ~FileWritten
    /\ FileWritten =>
        /\ tpc \in {"summary", "closed"}
        /\ mapfile[1] = mapping
        /\ Keys(mapfile[1]) = ExpectedKeys(joystick[1])
        /\ ("dpad" \in Range(Keys(mapfile[1]))) = (joystick[1].n_hats > 0)
        /\ ("analog" \in Range(Keys(mapfile[1]))) = (joystick[1].n_axes >= 2)
    /\ joystick # None =>
        /\ IsPrefix(Keys(mapping), ExpectedKeys(joystick[1]))
        /\ tpc # "quit" => Len(mapping) = KeysAt(tpc, joystick[1])
        /\ tpc = "dpad" => joystick[1].n_hats > 0
        /\ tpc \in {"analog_right", "analog_up"} => joystick[1].n_axes >= 2

\* a file written for a controller without a hat and with two axes: the
\* d-pad step was skipped, the analog step was taken
C16_Witness ==
    /\ FileWritten
    /\ joystick[1].n_hats = 0
    /\ joystick[1].n_axes >= 2
    /\ Keys(mapfile[1]) = <<"controller_name", "shoot", "jump", "dash", "analog">>
    /\ last_input.type = "axis"

====
